---------------------------- MODULE Spec2Model ----------------------------
(***************************************************************************)
(* Model of the focus-wizard bridge (bridge/src): the blink-rate          *)
(* estimator and MetricsCollector (metrics_collector.cpp), FocusAnalyzer   *)
(* (focus_analyzer.cpp) and the two SmartSpectra callbacks of main.cpp.    *)
(*                                                                         *)
(* Number representation.  The program computes in float; the model uses   *)
(* integers in fixed point and does not model float rounding:              *)
(*   - steady_clock time points are counted in ticks, TicksPerMs ticks to  *)
(*     the millisecond (the clock is finer than a millisecond, which       *)
(*     duration_cast<milliseconds> then truncates);                        *)
(*   - rates (pulse, breathing, blink) and their thresholds are whole      *)
(*     units (BPM, blinks per minute);                                     *)
(*   - gaze components, gaze magnitude, the gaze threshold and focus       *)
(*     scores are thousandths (1000 stands for 1.0f);                      *)
(*   - landmark coordinates are whole coordinate units;                    *)
(*   - the face absence timeout is kept in ticks.                          *)
(***************************************************************************)
EXTENDS Integers, Sequences, FiniteSets

VARIABLES
    now,                \* std::chrono::steady_clock, in ticks
    advances,           \* how often the modelled clock has advanced (bounded)
    thresholds_,        \* FocusAnalyzer::thresholds_
    last_face_seen_,    \* FocusAnalyzer::last_face_seen_
    ever_seen_face_,    \* FocusAnalyzer::ever_seen_face_
    current_metrics_,   \* MetricsCollector::current_metrics_
    blink_timestamps,   \* static deque in metrics_collector.cpp
    prev_blink_state,   \* static bool in metrics_collector.cpp
    focus,              \* the analyze call in hand: its argument and its
                        \* result (state is what current_state_ is set to)
    update,             \* the call in hand: its kind and its payload
    emitted,            \* the records the callback in hand wrote with emit
    face_log,           \* history: the analyze calls that were given a face
    blink_log,          \* history: the estimate_blink_rate calls
    threads,            \* per callback thread: where it is in its callback
                        \* and the callback's locals
    write_mutex_,       \* JsonEmitter::write_mutex_: its holder, or "free"
    stdout,             \* what the threads have written to std::cout
    started,            \* how many callbacks the threads have begun
    main                \* main(): where it is, what it has done and what
                        \* it has written with emit_status, emit_error
                        \* and emit_ready

\* what only the behaviours with two callback threads change
threadVars == <<threads, write_mutex_, stdout, started>>

vars == <<now, advances, thresholds_, last_face_seen_, ever_seen_face_,
          current_metrics_, blink_timestamps, prev_blink_state, focus,
          face_log, blink_log, update, emitted, threads, write_mutex_,
          stdout, started, main>>

---------------------------------------------------------------------------
(* Bounds of the model *)

\* ticks of the modelled steady_clock per millisecond (its resolution)
TicksPerMs == 2

\* how many times the clock advances in one behaviour
MaxAdvances == 3

\* how many estimate_blink_rate calls one behaviour makes
MaxCalls == 4

\* how many callbacks the two callback threads begin in one behaviour
MaxUpdates == 3

\* how many times the status-change callback fires in one behaviour
MaxStatusChanges == 2

---------------------------------------------------------------------------
(* Program constants *)

\* std::chrono::seconds(60): the sliding window of the blink estimator
BlinkWindowSec == 60

\* FocusThresholds defaults
BlinkRateDrowsyDefault == 25
PulseStressedDefault == 100
BreathingStressedDefault == 22
\* 0.3f, in thousandths
GazeDistractionDefault == 300
\* 3.0f seconds
FaceAbsenceTimeoutDefaultSec == 3

\* breathing_rate_bpm < 12.0f: "unusually slow"
SlowBreathingBpm == 12

\* lm_count >= 468: the full MediaPipe face mesh
DenseMeshSize == 468

\* face_width > 1.0f && face_height > 1.0f
MinFaceExtent == 1

\* focus scores, in thousandths
ScoreNeutral == 500
ScoreAway == 0
ScoreTalking == 300
ScoreDrowsy == 150
ScoreStressed == 250
ScoreDistractedFloor == 100
ScoreDistractedBase == 600
ScoreDistractedSlope == 300
ScoreFull == 1000

TicksPerSec == 1000 * TicksPerMs
BlinkWindow == BlinkWindowSec * TicksPerSec

---------------------------------------------------------------------------
(* Arithmetic helpers *)

Max(a, b) == IF a >= b THEN a ELSE b
Min(a, b) == IF a <= b THEN a ELSE b

\* floor of the square root, by bisection on [lo, hi]
RECURSIVE SqrtBetween(_, _, _)
SqrtBetween(n, lo, hi) ==
    IF lo >= hi THEN lo
    ELSE LET mid == (lo + hi + 1) \div 2
         IN  IF mid * mid <= n THEN SqrtBetween(n, mid, hi)
             ELSE SqrtBetween(n, lo, mid - 1)

\* std::sqrt of a non-negative value, to whole model units (46340 is the
\* largest root whose square 32-bit integer arithmetic holds)
Sqrt(n) == SqrtBetween(n, 0, Min(n, 46340))

Last(s) == s[Len(s)]

---------------------------------------------------------------------------
(* FocusMetrics and FocusThresholds *)

\* a plausible slip: face_detected initialised to true
DefaultMetricsFacePresent ==
    [pulse_rate_bpm |-> 0, pulse_confidence |-> 0, has_pulse |-> FALSE,
     breathing_rate_bpm |-> 0, breathing_confidence |-> 0,
     has_breathing |-> FALSE,
     face_detected |-> TRUE, is_blinking |-> FALSE, is_talking |-> FALSE,
     blink_rate_per_min |-> 0,
     gaze_x |-> 0, gaze_y |-> 0, has_gaze |-> FALSE,
     timestamp_us |-> 0]

\* struct FocusMetrics with its default member initialisers
DefaultMetrics ==
    [pulse_rate_bpm |-> 0, pulse_confidence |-> 0, has_pulse |-> FALSE,
     breathing_rate_bpm |-> 0, breathing_confidence |-> 0,
     has_breathing |-> FALSE,
     face_detected |-> FALSE, is_blinking |-> FALSE, is_talking |-> FALSE,
     blink_rate_per_min |-> 0,
     gaze_x |-> 0, gaze_y |-> 0, has_gaze |-> FALSE,
     timestamp_us |-> 0]

\* struct FocusThresholds with its default member initialisers
DefaultThresholds ==
    [blink_rate_drowsy_threshold |-> BlinkRateDrowsyDefault,
     pulse_stressed_threshold |-> PulseStressedDefault,
     breathing_stressed_threshold |-> BreathingStressedDefault,
     gaze_distraction_threshold |-> GazeDistractionDefault,
     face_absence_timeout_s |-> FaceAbsenceTimeoutDefaultSec * TicksPerSec]

FocusState == {"FOCUSED", "DISTRACTED", "DROWSY", "STRESSED", "AWAY",
               "TALKING", "UNKNOWN"}

---------------------------------------------------------------------------
(* FocusAnalyzer::analyze, rule by rule.  r is the pair of locals          *)
(* (state, focus_score) as the code carries it from one check to the next. *)

\* duration_cast<milliseconds>(now - last_face_seen_).count(): whole
\* milliseconds, the remainder dropped
AbsenceMs(t, last) == (t - last) \div TicksPerMs

\* a plausible slip: >= in place of >
AbsenceReaches(th, t, last) ==
    AbsenceMs(t, last) * TicksPerMs >= th.face_absence_timeout_s

\* absence_duration > thresholds_.face_absence_timeout_s, both sides
\* brought to ticks (absence_duration is AbsenceMs / 1000.0f seconds)
AbsenceExceeds(th, t, last) ==
    AbsenceMs(t, last) * TicksPerMs > th.face_absence_timeout_s

\* a plausible slip: AWAY decided without asking ever_seen_face_
CheckAwayUnguarded(th, last, ever, t, m, r) ==
    IF ~m.face_detected /\ AbsenceExceeds(th, t, last)
    THEN [state |-> "AWAY", focus_score |-> ScoreAway]
    ELSE r

\* 1. Check if face is gone (AWAY)
CheckAway(th, last, ever, t, m, r) ==
    IF ever /\ ~m.face_detected /\ AbsenceExceeds(th, t, last)
    THEN [state |-> "AWAY", focus_score |-> ScoreAway]
    ELSE r

\* 2. Check talking
CheckTalking(th, m, r) ==
    IF m.is_talking
    THEN [state |-> "TALKING", focus_score |-> ScoreTalking]
    ELSE r

\* std::sqrt(gaze_x * gaze_x + gaze_y * gaze_y), in thousandths
GazeMag(m) == Sqrt(m.gaze_x * m.gaze_x + m.gaze_y * m.gaze_y)

\* 3. Check distraction (gaze looking away from screen)
CheckDistracted(th, m, r) ==
    IF r.state = "UNKNOWN" /\ m.has_gaze
       /\ GazeMag(m) > th.gaze_distraction_threshold
    THEN [state |-> "DISTRACTED",
          focus_score |->
              Max(ScoreDistractedFloor,
                  ScoreDistractedBase
                      - (GazeMag(m) * ScoreDistractedSlope) \div 1000)]
    ELSE r

\* 4. Check drowsy indicators
CheckDrowsy(th, m, r) ==
    LET high_blink_rate ==
            m.blink_rate_per_min > th.blink_rate_drowsy_threshold
        slow_breathing ==
            m.has_breathing /\ m.breathing_rate_bpm < SlowBreathingBpm
    IN  IF r.state = "UNKNOWN"
           /\ (high_blink_rate \/ (high_blink_rate /\ slow_breathing))
        THEN [state |-> "DROWSY", focus_score |-> ScoreDrowsy]
        ELSE r

\* a plausible slip: one elevated vital is enough
CheckStressedEither(th, m, r) ==
    LET elevated_pulse ==
            m.has_pulse /\ m.pulse_rate_bpm > th.pulse_stressed_threshold
        fast_breathing ==
            m.has_breathing
            /\ m.breathing_rate_bpm > th.breathing_stressed_threshold
    IN  IF r.state = "UNKNOWN" /\ (elevated_pulse \/ fast_breathing)
        THEN [state |-> "STRESSED", focus_score |-> ScoreStressed]
        ELSE r

\* 5. Check stress indicators
CheckStressed(th, m, r) ==
    LET elevated_pulse ==
            m.has_pulse /\ m.pulse_rate_bpm > th.pulse_stressed_threshold
        fast_breathing ==
            m.has_breathing
            /\ m.breathing_rate_bpm > th.breathing_stressed_threshold
    IN  IF r.state = "UNKNOWN" /\ elevated_pulse /\ fast_breathing
        THEN [state |-> "STRESSED", focus_score |-> ScoreStressed]
        ELSE r

\* a plausible slip: the quotient taken the wrong way round
CheckFocusedInverted(th, ever, m, r) ==
    IF r.state = "UNKNOWN" /\ ever
    THEN [state |-> "FOCUSED",
          focus_score |->
              IF m.has_pulse /\ m.pulse_rate_bpm > 0
                 /\ th.pulse_stressed_threshold # 0
              THEN Min(ScoreFull,
                       (m.pulse_rate_bpm * 1000)
                           \div th.pulse_stressed_threshold)
              ELSE ScoreFull]
    ELSE r

\* 6. If nothing triggered, user is focused
CheckFocused(th, ever, m, r) ==
    IF r.state = "UNKNOWN" /\ ever
    THEN [state |-> "FOCUSED",
          focus_score |->
              IF m.has_pulse /\ m.pulse_rate_bpm > 0
              THEN Min(ScoreFull,
                       (th.pulse_stressed_threshold * 1000)
                           \div m.pulse_rate_bpm)
              ELSE ScoreFull]
    ELSE r

\* a plausible slip: the checks in the order of the file's header comment
\* (drowsy, stressed, then distracted)
AnalyzeFaceHeaderOrder(th, ever, m, r) ==
    CheckFocused(th, ever, m,
        CheckDistracted(th, m,
            CheckStressed(th, m,
                CheckDrowsy(th, m,
                    CheckTalking(th, m, r)))))

\* the block guarded by state == UNKNOWN && can_analyze
AnalyzeFace(th, ever, m, r) ==
    CheckFocused(th, ever, m,
        CheckStressed(th, m,
            CheckDrowsy(th, m,
                CheckDistracted(th, m,
                    CheckTalking(th, m, r)))))

\* a plausible slip: ever_seen_face_ set at the end of every call
AnalyzeMarksEveryCall(th, last, ever, t, m) ==
    LET last1 == IF m.face_detected THEN t ELSE last
        ever1 == IF m.face_detected THEN TRUE ELSE ever
        r0 == [state |-> "UNKNOWN", focus_score |-> ScoreNeutral]
        r1 == CheckAway(th, last1, ever1, t, m, r0)
        can_analyze == m.face_detected
        r2 == IF r1.state = "UNKNOWN" /\ can_analyze
              THEN AnalyzeFace(th, ever1, m, r1)
              ELSE r1
        r3 == IF r2.state = "UNKNOWN"
              THEN [r2 EXCEPT !.focus_score = ScoreNeutral]
              ELSE r2
    IN  [last_face_seen_ |-> last1, ever_seen_face_ |-> TRUE,
         state |-> r3.state, focus_score |-> r3.focus_score]

\* a plausible slip: last_face_seen_ refreshed on every call, face or not
AnalyzeRestartsEveryCall(th, last, ever, t, m) ==
    LET last1 == t
        ever1 == IF m.face_detected THEN TRUE ELSE ever
        r0 == [state |-> "UNKNOWN", focus_score |-> ScoreNeutral]
        r1 == CheckAway(th, last1, ever1, t, m, r0)
        can_analyze == m.face_detected
        r2 == IF r1.state = "UNKNOWN" /\ can_analyze
              THEN AnalyzeFace(th, ever1, m, r1)
              ELSE r1
        r3 == IF r2.state = "UNKNOWN"
              THEN [r2 EXCEPT !.focus_score = ScoreNeutral]
              ELSE r2
    IN  [last_face_seen_ |-> last1, ever_seen_face_ |-> ever1,
         state |-> r3.state, focus_score |-> r3.focus_score]

\* a plausible slip: the rules see ever_seen_face_ as it was before the
\* call
AnalyzeTracksLate(th, last, ever, t, m) ==
    LET last1 == IF m.face_detected THEN t ELSE last
        ever1 == IF m.face_detected THEN TRUE ELSE ever
        r0 == [state |-> "UNKNOWN", focus_score |-> ScoreNeutral]
        r1 == CheckAway(th, last1, ever, t, m, r0)
        can_analyze == m.face_detected
        r2 == IF r1.state = "UNKNOWN" /\ can_analyze
              THEN AnalyzeFace(th, ever, m, r1)
              ELSE r1
        r3 == IF r2.state = "UNKNOWN"
              THEN [r2 EXCEPT !.focus_score = ScoreNeutral]
              ELSE r2
    IN  [last_face_seen_ |-> last1, ever_seen_face_ |-> ever1,
         state |-> r3.state, focus_score |-> r3.focus_score]

\* FocusAnalyzer::analyze at clock reading t: the tracker as updated and
\* the (state, focus_score) that build_json reports
Analyze(th, last, ever, t, m) ==
    LET last1 == IF m.face_detected THEN t ELSE last
        ever1 == IF m.face_detected THEN TRUE ELSE ever
        r0 == [state |-> "UNKNOWN", focus_score |-> ScoreNeutral]
        r1 == CheckAway(th, last1, ever1, t, m, r0)
        can_analyze == m.face_detected
        r2 == IF r1.state = "UNKNOWN" /\ can_analyze
              THEN AnalyzeFace(th, ever1, m, r1)
              ELSE r1
        r3 == IF r2.state = "UNKNOWN"
              THEN [r2 EXCEPT !.focus_score = ScoreNeutral]
              ELSE r2
    IN  [last_face_seen_ |-> last1, ever_seen_face_ |-> ever1,
         state |-> r3.state, focus_score |-> r3.focus_score]

---------------------------------------------------------------------------
(* metrics_collector.cpp: the blink rate estimator *)

\* a plausible slip: <= in place of <, an entry exactly at the cutoff goes
RECURSIVE EvictOldInclusive(_, _)
EvictOldInclusive(ts, cutoff) ==
    IF ts # << >> /\ Head(ts) <= cutoff
    THEN EvictOldInclusive(Tail(ts), cutoff)
    ELSE ts

\* while (!blink_timestamps.empty() && blink_timestamps.front() < cutoff)
\*     blink_timestamps.pop_front();
RECURSIVE EvictOld(_, _)
EvictOld(ts, cutoff) ==
    IF ts # << >> /\ Head(ts) < cutoff
    THEN EvictOld(Tail(ts), cutoff)
    ELSE ts

\* a plausible slip: every call with the flag set counts, not only the
\* rising edge
EstimateBlinkRateEveryCall(ts, prev, t, currently_blinking) ==
    LET pushed == IF currently_blinking THEN Append(ts, t) ELSE ts
        kept == EvictOld(pushed, t - BlinkWindow)
    IN  [blink_timestamps |-> kept,
         prev_blink_state |-> currently_blinking,
         rate |-> Len(kept)]

\* a plausible slip: old entries are never evicted
EstimateBlinkRateNoEviction(ts, prev, t, currently_blinking) ==
    LET pushed == IF currently_blinking /\ ~prev
                  THEN Append(ts, t) ELSE ts
    IN  [blink_timestamps |-> pushed,
         prev_blink_state |-> currently_blinking,
         rate |-> Len(pushed)]

\* estimate_blink_rate(currently_blinking) at clock reading t, on the two
\* statics: their new values and the returned rate
EstimateBlinkRate(ts, prev, t, currently_blinking) ==
    LET pushed == IF currently_blinking /\ ~prev
                  THEN Append(ts, t) ELSE ts
        kept == EvictOld(pushed, t - BlinkWindow)
    IN  [blink_timestamps |-> kept,
         prev_blink_state |-> currently_blinking,
         rate |-> Len(kept)]

---------------------------------------------------------------------------
(* metrics_collector.cpp: MetricsCollector.  c is the collector together   *)
(* with the estimator's statics: [metrics, blink_timestamps,               *)
(* prev_blink_state].                                                      *)

\* the blink and talk part of a face message, the same in both updates
FaceFlags(c, t, face) ==
    LET blinked ==
            IF face.blinking # << >>
            THEN LET b == Last(face.blinking)
                     e == EstimateBlinkRate(c.blink_timestamps,
                                            c.prev_blink_state, t, b)
                 IN  [metrics |->
                          [c.metrics EXCEPT
                              !.is_blinking = b,
                              !.blink_rate_per_min = e.rate],
                      blink_timestamps |-> e.blink_timestamps,
                      prev_blink_state |-> e.prev_blink_state]
            ELSE c
    IN  IF face.talking # << >>
        THEN [blinked EXCEPT !.metrics.is_talking = Last(face.talking)]
        ELSE blinked

\* a plausible slip: a refined update without a pulse sample reports the
\* pulse as absent
ProcessCoreMetricsResets(c, t, p) ==
    LET c0 == [c EXCEPT !.metrics.timestamp_us = p.timestamp_us]
        c1 == IF p.has_pulse /\ p.pulse_rate # << >>
              THEN [c0 EXCEPT
                      !.metrics.pulse_rate_bpm = Last(p.pulse_rate).value,
                      !.metrics.pulse_confidence =
                          Last(p.pulse_rate).confidence,
                      !.metrics.has_pulse = TRUE]
              ELSE [c0 EXCEPT !.metrics.has_pulse = FALSE]
        c2 == IF p.has_breathing /\ p.breathing_rate # << >>
              THEN [c1 EXCEPT
                      !.metrics.breathing_rate_bpm =
                          Last(p.breathing_rate).value,
                      !.metrics.breathing_confidence =
                          Last(p.breathing_rate).confidence,
                      !.metrics.has_breathing = TRUE]
              ELSE c1
    IN  IF p.has_face
        THEN FaceFlags([c2 EXCEPT !.metrics.face_detected = TRUE], t,
                       p.face)
        ELSE c2

\* MetricsCollector::process_core_metrics(metrics, timestamp_us)
ProcessCoreMetrics(c, t, p) ==
    LET c0 == [c EXCEPT !.metrics.timestamp_us = p.timestamp_us]
        c1 == IF p.has_pulse /\ p.pulse_rate # << >>
              THEN [c0 EXCEPT
                      !.metrics.pulse_rate_bpm = Last(p.pulse_rate).value,
                      !.metrics.pulse_confidence =
                          Last(p.pulse_rate).confidence,
                      !.metrics.has_pulse = TRUE]
              ELSE c0
        c2 == IF p.has_breathing /\ p.breathing_rate # << >>
              THEN [c1 EXCEPT
                      !.metrics.breathing_rate_bpm =
                          Last(p.breathing_rate).value,
                      !.metrics.breathing_confidence =
                          Last(p.breathing_rate).confidence,
                      !.metrics.has_breathing = TRUE]
              ELSE c1
    IN  IF p.has_face
        THEN FaceFlags([c2 EXCEPT !.metrics.face_detected = TRUE], t,
                       p.face)
        ELSE c2

\* the gaze estimate from the latest landmark set lm
GazeFromLandmarks(m, lm) ==
    IF lm.count >= DenseMeshSize
    THEN LET face_width == lm.right_cheek_x - lm.left_cheek_x
             face_height == lm.chin_y - lm.forehead_y
             \* (nose - center) / (extent / 2) with center the midpoint
             \* is (2 * nose - (a + b)) / extent
             off_x == 2 * lm.nose_tip_x
                          - (lm.left_cheek_x + lm.right_cheek_x)
             off_y == 2 * lm.nose_tip_y - (lm.forehead_y + lm.chin_y)
         IN  IF face_width > MinFaceExtent /\ face_height > MinFaceExtent
             THEN [m EXCEPT !.gaze_x = (1000 * off_x) \div face_width,
                            !.gaze_y = (1000 * off_y) \div face_height,
                            !.has_gaze = TRUE]
             ELSE m
    ELSE m

\* a plausible slip: a frame without a face clears face_detected only
ProcessEdgeMetricsKeepsGaze(c, t, p) ==
    IF p.has_face
    THEN LET c1 == FaceFlags([c EXCEPT !.metrics.face_detected = TRUE],
                             t, p.face)
         IN  IF p.face.landmarks # << >>
             THEN [c1 EXCEPT
                     !.metrics =
                         GazeFromLandmarks(c1.metrics,
                                           Last(p.face.landmarks))]
             ELSE c1
    ELSE [c EXCEPT !.metrics.face_detected = FALSE]

\* a plausible slip: a frame without a face also drops the vitals
ProcessEdgeMetricsDropsVitals(c, t, p) ==
    IF p.has_face
    THEN LET c1 == FaceFlags([c EXCEPT !.metrics.face_detected = TRUE],
                             t, p.face)
         IN  IF p.face.landmarks # << >>
             THEN [c1 EXCEPT
                     !.metrics =
                         GazeFromLandmarks(c1.metrics,
                                           Last(p.face.landmarks))]
             ELSE c1
    ELSE [c EXCEPT !.metrics.face_detected = FALSE,
                   !.metrics.has_gaze = FALSE,
                   !.metrics.has_pulse = FALSE,
                   !.metrics.has_breathing = FALSE]

\* MetricsCollector::process_edge_metrics(metrics)
ProcessEdgeMetrics(c, t, p) ==
    IF p.has_face
    THEN LET c1 == FaceFlags([c EXCEPT !.metrics.face_detected = TRUE],
                             t, p.face)
         IN  IF p.face.landmarks # << >>
             THEN [c1 EXCEPT
                     !.metrics =
                         GazeFromLandmarks(c1.metrics,
                                           Last(p.face.landmarks))]
             ELSE c1
    ELSE [c EXCEPT !.metrics.face_detected = FALSE,
                   !.metrics.has_gaze = FALSE]

\* the JSON process_core_metrics returns
CoreJson(m) ==
    [timestamp_us |-> m.timestamp_us,
     pulse_rate_bpm |-> m.pulse_rate_bpm, has_pulse |-> m.has_pulse,
     pulse_confidence |-> m.pulse_confidence,
     breathing_rate_bpm |-> m.breathing_rate_bpm,
     has_breathing |-> m.has_breathing]

\* the JSON process_edge_metrics returns
EdgeJson(m) ==
    [face_detected |-> m.face_detected, is_blinking |-> m.is_blinking,
     blink_rate_per_min |-> m.blink_rate_per_min,
     is_talking |-> m.is_talking,
     gaze_x |-> m.gaze_x, gaze_y |-> m.gaze_y, has_gaze |-> m.has_gaze]

---------------------------------------------------------------------------
(* State after construction *)

\* history of the estimate_blink_rate calls, none made yet: how many, the
\* clock reading and the flag of the latest, the times of the calls that
\* were rising edges, and the values the latest two calls returned
NoBlinkLog ==
    [calls |-> 0, at |-> 0, flag |-> FALSE, onset |-> FALSE,
     onsets |-> << >>, returned |-> 0, returned_before |-> 0]

\* no analyze result is with a caller
NoFocus ==
    [called |-> FALSE, at |-> 0, metrics |-> DefaultMetrics,
     state |-> "UNKNOWN", focus_score |-> ScoreNeutral]

\* main() entered, the command line parsed: whether an API key was
\* resolved, which callbacks are registered, whether Initialize succeeded,
\* the failure that ended it, its exit code (-1 while it runs), the types
\* of the records it emitted itself, and how many of them came from the
\* status-change callback
MainEntered ==
    [pc |-> "resolve_api_key", api_key |-> FALSE, registered |-> {},
     initialized |-> FALSE, failure |-> "none", exit_code |-> 0 - 1,
     out |-> << >>, status_changes |-> 0]

\* the two callback sources of the SmartSpectra container, each a thread
Thread == {"core", "edge"}

\* a thread that is not inside its callback
IdleThread == [pc |-> "idle"]

\* the state once main has built the collector and the analyzer; the
\* FocusAnalyzer constructor reads the clock into last_face_seen_
InitWith(th) ==
    /\ now = 0
    /\ advances = 0
    /\ thresholds_ = th
    /\ last_face_seen_ = 0
    /\ ever_seen_face_ = FALSE
    /\ current_metrics_ = DefaultMetrics
    /\ blink_timestamps = << >>
    /\ prev_blink_state = FALSE
    /\ focus = NoFocus
    /\ face_log = [given |-> FALSE, at |-> 0]
    /\ blink_log = NoBlinkLog
    /\ update = [kind |-> "none"]
    /\ emitted = << >>
    /\ threads = [k \in Thread |-> IdleThread]
    /\ write_mutex_ = "free"
    /\ stdout = << >>
    /\ started = 0
    /\ main = MainEntered

\* the steady clock moves forward by d ticks, between two calls
AdvanceClock(d) ==
    /\ update.kind = "none"
    /\ advances < MaxAdvances
    /\ now' = now + d
    /\ advances' = advances + 1
    /\ UNCHANGED <<thresholds_, last_face_seen_, ever_seen_face_,
                   current_metrics_, blink_timestamps, prev_blink_state,
                   focus, face_log, blink_log, update, emitted>>
    /\ UNCHANGED threadVars
    /\ UNCHANGED main

\* analyzer.analyze(m): the tracker and the result
RunAnalyze(m) ==
    LET a == Analyze(thresholds_, last_face_seen_, ever_seen_face_, now, m)
    IN  /\ last_face_seen_' = a.last_face_seen_
        /\ ever_seen_face_' = a.ever_seen_face_
        /\ focus' = [called |-> TRUE, at |-> now, metrics |-> m,
                     state |-> a.state, focus_score |-> a.focus_score]
        /\ face_log' = IF m.face_detected
                       THEN [given |-> TRUE, at |-> now]
                       ELSE face_log

\* whether payload p makes the update call estimate_blink_rate
Estimates(p) == p.has_face /\ p.face.blinking # << >>

\* what the update with payload p, leaving c, does to the collector, the
\* estimator's statics and the history of the estimator's calls
Collect(c, p) ==
    /\ current_metrics_' = c.metrics
    /\ blink_timestamps' = c.blink_timestamps
    /\ prev_blink_state' = c.prev_blink_state
    /\ blink_log' =
           IF Estimates(p)
           THEN LET b == Last(p.face.blinking)
                    rising == b /\ ~blink_log.flag
                IN  [calls |-> blink_log.calls + 1, at |-> now,
                     flag |-> b, onset |-> rising,
                     onsets |-> IF rising
                                THEN Append(blink_log.onsets, now)
                                ELSE blink_log.onsets,
                     returned |-> c.metrics.blink_rate_per_min,
                     returned_before |-> blink_log.returned]
           ELSE blink_log

\* the collector and the estimator's statics as one value
Collector ==
    [metrics |-> current_metrics_, blink_timestamps |-> blink_timestamps,
     prev_blink_state |-> prev_blink_state]

\* the core metrics callback of main with payload p: process_core_metrics,
\* emit, analyze, emit
CoreCallback(p) ==
    /\ update.kind = "none"
    /\ Estimates(p) => blink_log.calls < MaxCalls
    /\ LET c == ProcessCoreMetrics(Collector, now, p)
       IN  /\ Collect(c, p)
           /\ RunAnalyze(c.metrics)
           /\ emitted' = <<[type |-> "metrics", data |-> CoreJson(c.metrics)],
                           [type |-> "focus"]>>
    /\ update' = [kind |-> "core", payload |-> p,
                  before |-> current_metrics_]
    /\ UNCHANGED <<now, advances, thresholds_>>
    /\ UNCHANGED threadVars
    /\ UNCHANGED main

\* the edge metrics callback of main with payload p: process_edge_metrics,
\* emit, analyze, emit
EdgeCallback(p) ==
    /\ update.kind = "none"
    /\ Estimates(p) => blink_log.calls < MaxCalls
    /\ LET c == ProcessEdgeMetrics(Collector, now, p)
       IN  /\ Collect(c, p)
           /\ RunAnalyze(c.metrics)
           /\ emitted' = <<[type |-> "edge", data |-> EdgeJson(c.metrics)],
                           [type |-> "focus"]>>
    /\ update' = [kind |-> "edge", payload |-> p,
                  before |-> current_metrics_]
    /\ UNCHANGED <<now, advances, thresholds_>>
    /\ UNCHANGED threadVars
    /\ UNCHANGED main

\* update is the call in hand: its kind, and for a callback its payload and
\* the snapshot as it was when the callback began (before).  The call
\* returns to its caller; what the model remembers of it is dropped
Return ==
    /\ update.kind # "none"
    /\ update' = [kind |-> "none"]
    /\ focus' = NoFocus
    /\ emitted' = << >>
    /\ UNCHANGED <<now, advances, thresholds_, last_face_seen_,
                   ever_seen_face_, current_metrics_, blink_timestamps,
                   prev_blink_state, face_log, blink_log>>
    /\ UNCHANGED threadVars
    /\ UNCHANGED main

---------------------------------------------------------------------------
(* The classifier on its own: analyze called with any snapshot *)

\* threshold settings: the defaults and settings that move one threshold
AnalyzerThresholds ==
    {DefaultThresholds,
     [DefaultThresholds EXCEPT !.blink_rate_drowsy_threshold = 0],
     [DefaultThresholds EXCEPT !.pulse_stressed_threshold = 0 - 100],
     [DefaultThresholds EXCEPT !.breathing_stressed_threshold = 24],
     [DefaultThresholds EXCEPT !.gaze_distraction_threshold = 0 - 1],
     [DefaultThresholds EXCEPT !.gaze_distraction_threshold = 500],
     [DefaultThresholds EXCEPT !.face_absence_timeout_s = 0],
     [DefaultThresholds EXCEPT !.face_absence_timeout_s = 1]}

\* gaze part of a snapshot: (has_gaze, gaze_x, gaze_y), thousandths
GazeCases ==
    {<<FALSE, 0, 0>>, <<FALSE, 300, 400>>, <<TRUE, 300, 0>>,
     <<TRUE, 0 - 300, 0 - 400>>, <<TRUE, 2000, 0>>}

\* pulse part: (has_pulse, pulse_rate_bpm)
PulseCases ==
    {<<FALSE, 0>>, <<FALSE, 110>>, <<TRUE, 0>>, <<TRUE, 100>>, <<TRUE, 110>>}

\* breathing part: (has_breathing, breathing_rate_bpm)
BreathingCases == {<<FALSE, 25>>, <<TRUE, 22>>, <<TRUE, 25>>}

BlinkRateCases == {25, 26}

Snapshots ==
    {[DefaultMetrics EXCEPT
        !.face_detected = f, !.is_talking = k,
        !.has_gaze = g[1], !.gaze_x = g[2], !.gaze_y = g[3],
        !.has_pulse = p[1], !.pulse_rate_bpm = p[2],
        !.has_breathing = b[1], !.breathing_rate_bpm = b[2],
        !.blink_rate_per_min = n] :
        f \in BOOLEAN, k \in BOOLEAN, g \in GazeCases, p \in PulseCases,
        b \in BreathingCases, n \in BlinkRateCases}

\* clock steps of the classifier's specification: one tick, the default
\* timeout
AnalyzerSteps == {1, FaceAbsenceTimeoutDefaultSec * TicksPerSec}

InitAnalyzer == \E th \in AnalyzerThresholds : InitWith(th)

\* a caller hands snapshot m to FocusAnalyzer::analyze and holds the
\* returned result
AnalyzeSnapshot(m) ==
    /\ update.kind = "none"
    /\ RunAnalyze(m)
    /\ update' = [kind |-> "analyze"]
    /\ UNCHANGED <<now, advances, thresholds_, current_metrics_,
                   blink_timestamps, prev_blink_state, blink_log, emitted>>
    /\ UNCHANGED threadVars
    /\ UNCHANGED main

\* analyzer.analyze(collector.current()) on a collector no update has
\* reached
AnalyzeCurrent == AnalyzeSnapshot(current_metrics_)

\* the caller that holds a result hands the same snapshot to analyze again
\* at once, the clock not having moved; first is the result it held
AnalyzeAgain ==
    /\ update.kind = "analyze"
    /\ focus.at = now
    /\ RunAnalyze(focus.metrics)
    /\ update' = [kind |-> "again",
                  first |-> [state |-> focus.state,
                             focus_score |-> focus.focus_score]]
    /\ UNCHANGED <<now, advances, thresholds_, current_metrics_,
                   blink_timestamps, prev_blink_state, blink_log, emitted>>
    /\ UNCHANGED threadVars
    /\ UNCHANGED main

NextAnalyzer ==
    \/ \E d \in AnalyzerSteps : AdvanceClock(d)
    \/ \E m \in Snapshots : AnalyzeSnapshot(m)
    \/ AnalyzeCurrent
    \/ AnalyzeAgain
    \/ Return

SpecAnalyzer == InitAnalyzer /\ [][NextAnalyzer]_vars

---------------------------------------------------------------------------
(* Payloads of the SmartSpectra callbacks *)

\* a face message without observations (the default instance)
EmptyFace == [blinking |-> << >>, talking |-> << >>, landmarks |-> << >>]

\* a MetricsBuffer without pulse, breathing or face
EmptyCore ==
    [timestamp_us |-> 1, has_pulse |-> FALSE, pulse_rate |-> << >>,
     has_breathing |-> FALSE, breathing_rate |-> << >>,
     has_face |-> FALSE, face |-> EmptyFace]

\* a per-frame Metrics without face
EmptyEdge == [has_face |-> FALSE, face |-> EmptyFace]

\* a dense mesh, only the five landmarks the gaze estimate reads: the
\* nose tip right of and below the centre, gaze (0.3, 0.4)
MeshOff ==
    [count |-> DenseMeshSize, nose_tip_x |-> 13, nose_tip_y |-> 14,
     left_cheek_x |-> 0, right_cheek_x |-> 20,
     forehead_y |-> 0, chin_y |-> 20]

\* the nose tip at the centre of the face, gaze (0, 0)
MeshCentered == [MeshOff EXCEPT !.nose_tip_x = 10, !.nose_tip_y = 10]

\* one landmark short of the dense mesh
MeshSparse == [MeshOff EXCEPT !.count = DenseMeshSize - 1]

\* face width exactly 1.0
MeshNarrow == [MeshOff EXCEPT !.right_cheek_x = MinFaceExtent]

\* face height exactly 1.0
MeshFlat == [MeshOff EXCEPT !.chin_y = MinFaceExtent]

\* the landmark lists of a frame, the latest set last
LandmarkCases ==
    {<<MeshOff>>, <<MeshCentered>>, <<MeshOff, MeshSparse>>, <<MeshNarrow>>,
     <<MeshSparse, MeshFlat>>}

\* frame payloads: no face, a face alone, and a face with one kind of
\* observation
EdgePayloads ==
    {EmptyEdge, [EmptyEdge EXCEPT !.has_face = TRUE]}
    \cup {[has_face |-> TRUE, face |-> [EmptyFace EXCEPT !.landmarks = l]] :
            l \in LandmarkCases}
    \cup {[has_face |-> TRUE, face |-> [EmptyFace EXCEPT !.blinking = b]] :
            b \in {<<TRUE>>, <<TRUE, FALSE>>}}
    \cup {[has_face |-> TRUE, face |-> [EmptyFace EXCEPT !.talking = k]] :
            k \in {<<TRUE>>, <<TRUE, FALSE>>}}

\* refined payloads: nothing, vitals, a pulse message without samples, a
\* face with one kind of observation
CorePayloads ==
    {EmptyCore,
     [EmptyCore EXCEPT
        !.has_pulse = TRUE,
        !.pulse_rate = <<[value |-> 80, confidence |-> 500],
                         [value |-> 110, confidence |-> 900]>>,
        !.has_breathing = TRUE,
        !.breathing_rate = <<[value |-> 25, confidence |-> 900]>>],
     [EmptyCore EXCEPT !.has_pulse = TRUE],
     [EmptyCore EXCEPT !.has_face = TRUE,
                       !.face = [EmptyFace EXCEPT !.blinking = <<TRUE>>]],
     [EmptyCore EXCEPT !.has_face = TRUE,
                       !.face = [EmptyFace EXCEPT !.talking = <<TRUE>>]]}

---------------------------------------------------------------------------
(* The bridge: both callbacks, one at a time, under the flags' defaults    *)

\* clock steps between callbacks: a millisecond past the timeout
BridgeSteps == {FaceAbsenceTimeoutDefaultSec * TicksPerSec + TicksPerMs}

Init == InitWith(DefaultThresholds)

Next ==
    \/ \E d \in BridgeSteps : AdvanceClock(d)
    \/ \E p \in CorePayloads : CoreCallback(p)
    \/ \E p \in EdgePayloads : EdgeCallback(p)
    \/ Return

Spec == Init /\ [][Next]_vars

---------------------------------------------------------------------------
(* The blink estimator under both callbacks: payloads that differ in the   *)
(* blink observations only, and a clock that steps across the 60 s window  *)

\* blink observations of one update, the latest last
BlinkCases == {<<FALSE>>, <<TRUE>>, <<FALSE, TRUE>>}

BlinkEdgePayloads ==
    {EmptyEdge, [EmptyEdge EXCEPT !.has_face = TRUE]}
    \cup {[has_face |-> TRUE, face |-> [EmptyFace EXCEPT !.blinking = b]] :
            b \in BlinkCases}

BlinkCorePayloads ==
    {[EmptyCore EXCEPT !.has_face = TRUE,
                       !.face = [EmptyFace EXCEPT !.blinking = b]] :
        b \in BlinkCases}

\* clock steps: one tick, the window
BlinkSteps == {1, BlinkWindow}

\* the defaults, and --blink_threshold=1
BlinkThresholds ==
    {DefaultThresholds,
     [DefaultThresholds EXCEPT !.blink_rate_drowsy_threshold = 1]}

InitBlink == \E th \in BlinkThresholds : InitWith(th)

NextBlink ==
    \/ \E d \in BlinkSteps : AdvanceClock(d)
    \/ \E p \in BlinkCorePayloads : CoreCallback(p)
    \/ \E p \in BlinkEdgePayloads : EdgeCallback(p)
    \/ Return

SpecBlink == InitBlink /\ [][NextBlink]_vars

---------------------------------------------------------------------------
(* The bridge with its two callback sources on two threads ("multiple      *)
(* SmartSpectra callbacks may fire concurrently", json_emitter.hpp).  A    *)
(* callback is the sequence process_*_metrics, emit, analyze, emit; only   *)
(* emit takes a lock.  Each call is entered in one step and left in        *)
(* another, so a thread can be met in the middle of it.  Unsynchronised    *)
(* accesses that overlap are a data race: the estimator's read-modify-     *)
(* write of its statics then works on the values it read when the call     *)
(* began or on the values present when it ends, and analyze classifies the *)
(* snapshot as it was when the call began or as it is when it ends.        *)

\* the other thread
Other(k) == CHOOSE j \in Thread : j # k

\* the update of thread k's callback on collector c with payload p
Process(k, c, t, p) ==
    IF k = "core" THEN ProcessCoreMetrics(c, t, p)
    ELSE ProcessEdgeMetrics(c, t, p)

\* the type of the raw record of thread k's callback
RawType(k) == IF k = "core" THEN "metrics" ELSE "edge"

\* where a thread is between the end of its update and the end of its
\* analyze call
BetweenUpdateAndResult ==
    {"emit_raw", "writing_raw", "call_analyze", "analyze"}

\* thread record r after another thread wrote the snapshot or the tracker
Disturb(r) ==
    IF r.pc \in BetweenUpdateAndResult
    THEN [r EXCEPT !.disturbed = TRUE]
    ELSE r

\* the container calls thread k's callback with payload p; the thread
\* enters process_*_metrics and reads the shared state
Begin(k, p) ==
    /\ threads[k].pc = "idle"
    /\ started < MaxUpdates
    /\ started' = started + 1
    /\ threads' = [threads EXCEPT
                      ![k] = [pc |-> "process", n |-> started + 1,
                              payload |-> p, seen |-> Collector]]
    /\ UNCHANGED main
    /\ UNCHANGED <<now, advances, thresholds_, last_face_seen_,
                   ever_seen_face_, current_metrics_, blink_timestamps,
                   prev_blink_state, focus, face_log, blink_log, update,
                   emitted, write_mutex_, stdout>>

\* thread k leaves process_*_metrics: the snapshot fields are written in
\* place; the estimator's statics are those read at entry or those present
\* now (the same unless the other thread wrote them meanwhile)
EndProcess(k) ==
    /\ threads[k].pc = "process"
    /\ \E c0 \in {Collector,
                   [Collector EXCEPT
                      !.blink_timestamps =
                          threads[k].seen.blink_timestamps,
                      !.prev_blink_state =
                          threads[k].seen.prev_blink_state]} :
          LET c == Process(k, c0, now, threads[k].payload)
          IN  /\ current_metrics_' = c.metrics
              /\ blink_timestamps' = c.blink_timestamps
              /\ prev_blink_state' = c.prev_blink_state
              /\ threads' =
                     [threads EXCEPT
                        ![k] = [pc |-> "emit_raw", n |-> threads[k].n,
                                left |-> c.metrics, disturbed |-> FALSE],
                        ![Other(k)] = Disturb(threads[Other(k)])]
    /\ UNCHANGED main
    /\ UNCHANGED <<now, advances, thresholds_, last_face_seen_,
                   ever_seen_face_, focus, face_log, blink_log, update,
                   emitted, write_mutex_, stdout, started>>

\* a plausible slip: emit without the lock_guard
MayLockAnyway(k) == TRUE

\* std::lock_guard<std::mutex> lock(write_mutex_) can be constructed
MayLock(k) == write_mutex_ = "free"

\* thread k enters emit, takes the mutex and writes the first part of the
\* line
EmitBegin(k) ==
    /\ threads[k].pc \in {"emit_raw", "emit_focus"}
    /\ MayLock(k)
    /\ write_mutex_' = k
    /\ LET raw == threads[k].pc = "emit_raw"
       IN  /\ stdout' = Append(stdout,
                                [n |-> threads[k].n,
                                 type |-> IF raw THEN RawType(k)
                                          ELSE "focus",
                                 part |-> "head"])
           /\ threads' = [threads EXCEPT
                             ![k].pc = IF raw THEN "writing_raw"
                                       ELSE "writing_focus"]
    /\ UNCHANGED main
    /\ UNCHANGED <<now, advances, thresholds_, last_face_seen_,
                   ever_seen_face_, current_metrics_, blink_timestamps,
                   prev_blink_state, focus, face_log, blink_log, update,
                   emitted, started>>

\* thread k writes the rest of the line with std::endl and leaves emit,
\* which releases the mutex; after the focus record the callback returns
EmitEnd(k) ==
    /\ threads[k].pc \in {"writing_raw", "writing_focus"}
    /\ write_mutex_' = "free"
    /\ LET raw == threads[k].pc = "writing_raw"
       IN  /\ stdout' = Append(stdout,
                                [n |-> threads[k].n,
                                 type |-> IF raw THEN RawType(k)
                                          ELSE "focus",
                                 part |-> "tail"])
           /\ threads' = [threads EXCEPT
                             ![k] = IF raw
                                    THEN [threads[k] EXCEPT
                                            !.pc = "call_analyze"]
                                    ELSE IdleThread]
    /\ UNCHANGED main
    /\ UNCHANGED <<now, advances, thresholds_, last_face_seen_,
                   ever_seen_face_, current_metrics_, blink_timestamps,
                   prev_blink_state, focus, face_log, blink_log, update,
                   emitted, started>>

\* thread k enters analyzer.analyze(collector.current()); current() is a
\* reference to the shared snapshot
AnalyzeBegin(k) ==
    /\ threads[k].pc = "call_analyze"
    /\ threads' = [threads EXCEPT
                      ![k] = [pc |-> "analyze", n |-> threads[k].n,
                              left |-> threads[k].left,
                              disturbed |-> threads[k].disturbed,
                              seen |-> current_metrics_]]
    /\ UNCHANGED main
    /\ UNCHANGED <<now, advances, thresholds_, last_face_seen_,
                   ever_seen_face_, current_metrics_, blink_timestamps,
                   prev_blink_state, focus, face_log, blink_log, update,
                   emitted, write_mutex_, stdout, started>>

\* thread k leaves analyze: analyzed is the snapshot the result was
\* computed from
AnalyzeEnd(k) ==
    /\ threads[k].pc = "analyze"
    /\ \E m \in {threads[k].seen, current_metrics_} :
          LET a == Analyze(thresholds_, last_face_seen_, ever_seen_face_,
                           now, m)
          IN  /\ last_face_seen_' = a.last_face_seen_
              /\ ever_seen_face_' = a.ever_seen_face_
              /\ threads' =
                     [threads EXCEPT
                        ![k] = [pc |-> "emit_focus", n |-> threads[k].n,
                                left |-> threads[k].left,
                                disturbed |-> threads[k].disturbed,
                                analyzed |-> m],
                        ![Other(k)] =
                            IF m.face_detected
                            THEN Disturb(threads[Other(k)])
                            ELSE threads[Other(k)]]
    /\ UNCHANGED main
    /\ UNCHANGED <<now, advances, thresholds_, current_metrics_,
                   blink_timestamps, prev_blink_state, focus, face_log,
                   blink_log, update, emitted, write_mutex_, stdout,
                   started>>

\* payloads of the refined callback's thread: vitals, a blink observation
ThreadCorePayloads ==
    {[EmptyCore EXCEPT
        !.has_pulse = TRUE,
        !.pulse_rate = <<[value |-> 110, confidence |-> 900]>>],
     [EmptyCore EXCEPT !.has_face = TRUE,
                       !.face = [EmptyFace EXCEPT !.blinking = <<TRUE>>]]}

\* payloads of the frame callback's thread: no face, a blink observation
ThreadEdgePayloads ==
    {EmptyEdge,
     [has_face |-> TRUE, face |-> [EmptyFace EXCEPT !.blinking = <<TRUE>>]]}

\* the payloads the container hands to thread k
ThreadPayloads(k) ==
    IF k = "core" THEN ThreadCorePayloads ELSE ThreadEdgePayloads

NextThreads ==
    \E k \in Thread :
        \/ \E p \in ThreadPayloads(k) : Begin(k, p)
        \/ EndProcess(k)
        \/ EmitBegin(k)
        \/ EmitEnd(k)
        \/ AnalyzeBegin(k)
        \/ AnalyzeEnd(k)

SpecThreads == Init /\ [][NextThreads]_vars

---------------------------------------------------------------------------
(* The two updates on two threads, statement by statement: each update is  *)
(* the sequence of the assignments to current_metrics_ that its payload    *)
(* selects, and the threads' assignments interleave freely.  The call of   *)
(* estimate_blink_rate is one step.                                        *)

\* the assignment current_metrics_.f = v
Set(f, v) == [op |-> "set", field |-> f, value |-> v]

\* the blink and talk assignments, the same in both updates
FaceStatements(face) ==
    (IF face.blinking # << >>
     THEN <<Set("is_blinking", Last(face.blinking)), [op |-> "estimate"]>>
     ELSE << >>)
    \o (IF face.talking # << >>
        THEN <<Set("is_talking", Last(face.talking))>>
        ELSE << >>)

\* the assignments of process_core_metrics for payload p
CoreStatements(p) ==
    <<Set("timestamp_us", p.timestamp_us)>>
    \o (IF p.has_pulse /\ p.pulse_rate # << >>
        THEN <<Set("pulse_rate_bpm", Last(p.pulse_rate).value),
               Set("pulse_confidence", Last(p.pulse_rate).confidence),
               Set("has_pulse", TRUE)>>
        ELSE << >>)
    \o (IF p.has_breathing /\ p.breathing_rate # << >>
        THEN <<Set("breathing_rate_bpm", Last(p.breathing_rate).value),
               Set("breathing_confidence",
                   Last(p.breathing_rate).confidence),
               Set("has_breathing", TRUE)>>
        ELSE << >>)
    \o (IF p.has_face
        THEN <<Set("face_detected", TRUE)>> \o FaceStatements(p.face)
        ELSE << >>)

\* the gaze assignments for the landmark sets lms of a frame
GazeStatements(lms) ==
    IF lms = << >> THEN << >>
    ELSE LET g == GazeFromLandmarks(DefaultMetrics, Last(lms))
         IN  IF g.has_gaze
             THEN <<Set("gaze_x", g.gaze_x), Set("gaze_y", g.gaze_y),
                    Set("has_gaze", TRUE)>>
             ELSE << >>

\* the assignments of process_edge_metrics for payload p
EdgeStatements(p) ==
    IF p.has_face
    THEN <<Set("face_detected", TRUE)>> \o FaceStatements(p.face)
             \o GazeStatements(p.face.landmarks)
    ELSE <<Set("face_detected", FALSE), Set("has_gaze", FALSE)>>

\* the assignments of thread k's update for payload p
Statements(k, p) ==
    IF k = "core" THEN CoreStatements(p) ELSE EdgeStatements(p)

\* thread k's callback is called with payload p and enters its update;
\* seen is the shared state at entry, alone tells that the other thread
\* has executed nothing since
EnterUpdate(k, p) ==
    /\ threads[k].pc = "idle"
    /\ started < MaxUpdates
    /\ started' = started + 1
    /\ threads' = [threads EXCEPT
                      ![k] = [pc |-> "statement", at |-> 1, payload |-> p,
                              seen |-> Collector, alone |-> TRUE]]
    /\ UNCHANGED main
    /\ UNCHANGED <<now, advances, thresholds_, last_face_seen_,
                   ever_seen_face_, current_metrics_, blink_timestamps,
                   prev_blink_state, focus, face_log, blink_log, update,
                   emitted, write_mutex_, stdout>>

\* thread k executes the next assignment of its update; after the last
\* one the update is complete and left is the snapshot the callback goes
\* on with (expected: what the update alone makes of the state at entry)
Statement(k) ==
    /\ threads[k].pc = "statement"
    /\ LET t == threads[k]
           st == Statements(k, t.payload)[t.at]
           e == EstimateBlinkRate(blink_timestamps, prev_blink_state, now,
                                  current_metrics_.is_blinking)
           m == IF st.op = "set"
                THEN [current_metrics_ EXCEPT ![st.field] = st.value]
                ELSE [current_metrics_ EXCEPT
                        !.blink_rate_per_min = e.rate]
           o == threads[Other(k)]
       IN  /\ current_metrics_' = m
           /\ blink_timestamps' =
                  IF st.op = "estimate" THEN e.blink_timestamps
                  ELSE blink_timestamps
           /\ prev_blink_state' =
                  IF st.op = "estimate" THEN e.prev_blink_state
                  ELSE prev_blink_state
           /\ threads' =
                  [threads EXCEPT
                     ![k] = IF t.at = Len(Statements(k, t.payload))
                            THEN [pc |-> "updated", alone |-> t.alone,
                                  left |-> m,
                                  expected |->
                                      Process(k, t.seen, now,
                                              t.payload).metrics]
                            ELSE [t EXCEPT !.at = @ + 1],
                     ![Other(k)] = IF o.pc = "statement"
                                   THEN [o EXCEPT !.alone = FALSE]
                                   ELSE o]
    /\ UNCHANGED main
    /\ UNCHANGED <<now, advances, thresholds_, last_face_seen_,
                   ever_seen_face_, focus, face_log, blink_log, update,
                   emitted, write_mutex_, stdout, started>>

\* thread k's callback goes on (emit, analyze, emit) and returns
LeaveUpdate(k) ==
    /\ threads[k].pc = "updated"
    /\ threads' = [threads EXCEPT ![k] = IdleThread]
    /\ UNCHANGED main
    /\ UNCHANGED <<now, advances, thresholds_, last_face_seen_,
                   ever_seen_face_, current_metrics_, blink_timestamps,
                   prev_blink_state, focus, face_log, blink_log, update,
                   emitted, write_mutex_, stdout, started>>

\* payloads of the refined callback: vitals, a face with a blink
\* observation; of the frame callback: no face, a face with a dense mesh,
\* a face with a blink observation
StatementPayloads(k) ==
    IF k = "core" THEN ThreadCorePayloads
    ELSE ThreadEdgePayloads
             \cup {[has_face |-> TRUE,
                    face |-> [EmptyFace EXCEPT !.landmarks = <<MeshOff>>]]}

NextStatements ==
    \E k \in Thread :
        \/ \E p \in StatementPayloads(k) : EnterUpdate(k, p)
        \/ Statement(k)
        \/ LeaveUpdate(k)

SpecStatements == Init /\ [][NextStatements]_vars

---------------------------------------------------------------------------
(* main(): start-up, Run and exit.  The SmartSpectra container is not part *)
(* of the repository: its calls are taken to succeed, to return a failed   *)
(* status or to throw, and it is taken to call the registered callbacks    *)
(* only while Run() executes.                                              *)

\* everything main() itself does not touch
bridgeVars ==
    <<now, advances, thresholds_, last_face_seen_, ever_seen_face_,
      current_metrics_, blink_timestamps, prev_blink_state, focus,
      face_log, blink_log, update, emitted, threads, write_mutex_, stdout,
      started>>

\* what a call into the container can do
Outcomes == {"ok", "failed", "thrown"}

\* the callbacks in the order main registers them
RegistrationOrder == <<"core", "edge", "video", "status">>

\* main m after emit_error and return 1, f telling what failed (an
\* exception reaches the catch block, which does the same)
Fail(m, f) ==
    [m EXCEPT !.pc = "exited", !.failure = f, !.exit_code = 1,
              !.out = Append(@, "error")]

\* api_key = resolve_api_key(); empty when neither the flag nor the
\* environment gives one
ResolveApiKey ==
    /\ main.pc = "resolve_api_key"
    /\ \E resolved \in BOOLEAN :
          main' = IF resolved
                  THEN [main EXCEPT !.pc = "mode", !.api_key = TRUE]
                  ELSE Fail(main, "api_key")
    /\ UNCHANGED bridgeVars

\* the mode flag and, in server mode, the file_stream_path flag
DetermineMode ==
    /\ main.pc = "mode"
    /\ \E server_mode \in BOOLEAN, fsp_empty \in BOOLEAN :
          main' = IF server_mode /\ fsp_empty
                  THEN Fail(main, "file_stream_path")
                  ELSE [main EXCEPT !.pc = "create",
                                    !.out = Append(@, "status")]
    /\ UNCHANGED bridgeVars

\* settings, the container, the collector and the analyzer are built
CreateContainer ==
    /\ main.pc = "create"
    /\ \E o \in {"ok", "thrown"} :
          main' = IF o = "ok"
                  THEN [main EXCEPT !.pc = "register"]
                  ELSE Fail(main, "exception")
    /\ UNCHANGED bridgeVars

\* the next SetOn... call and the test of its status
Register ==
    /\ main.pc = "register"
    /\ LET cb == RegistrationOrder[Cardinality(main.registered) + 1]
           all == Cardinality(main.registered) + 1
                      = Len(RegistrationOrder)
       IN  \E o \in Outcomes :
              main' =
                  IF o = "ok"
                  THEN [main EXCEPT
                          !.registered = @ \cup {cb},
                          !.pc = IF all THEN "initialize" ELSE "register"]
                  ELSE IF o = "failed" THEN Fail(main, "register")
                  ELSE Fail(main, "exception")
    /\ UNCHANGED bridgeVars

\* a plausible slip: the status of Initialize is not tested
InitializeOkAlways(o) == TRUE

\* init_status.ok()
InitializeOk(o) == o = "ok"

\* emit_status, ss_container->Initialize() and the test of its status
Initialize ==
    /\ main.pc = "initialize"
    /\ LET m == [main EXCEPT !.out = Append(@, "status")]
       IN  \E o \in Outcomes :
              main' =
                  IF o = "thrown" THEN Fail(m, "exception")
                  ELSE IF InitializeOk(o)
                  THEN [m EXCEPT !.pc = "ready",
                                 !.initialized = (o = "ok")]
                  ELSE Fail(m, "initialize")
    /\ UNCHANGED bridgeVars

\* g_emitter.emit_ready(), then Run() is entered
EmitReady ==
    /\ main.pc = "ready"
    /\ main' = [main EXCEPT !.pc = "run", !.out = Append(@, "ready")]
    /\ UNCHANGED bridgeVars

\* the status-change callback: emit_status(desc)
StatusChange ==
    /\ main.pc = "run"
    /\ "status" \in main.registered
    /\ main.status_changes < MaxStatusChanges
    /\ main' = [main EXCEPT !.status_changes = @ + 1,
                            !.out = Append(@, "status")]
    /\ UNCHANGED bridgeVars

\* Run() calls the core metrics callback
RunCoreCallback(p) ==
    /\ main.pc = "run"
    /\ "core" \in main.registered
    /\ CoreCallback(p)

\* Run() calls the edge metrics callback
RunEdgeCallback(p) ==
    /\ main.pc = "run"
    /\ "edge" \in main.registered
    /\ EdgeCallback(p)

\* Run() returns or throws, no callback being in progress: a cancelled
\* status counts as a graceful shutdown
RunEnds ==
    /\ main.pc = "run"
    /\ update.kind = "none"
    /\ \E o \in Outcomes \cup {"cancelled"} :
          main' =
              IF o \in {"ok", "cancelled"}
              THEN [main EXCEPT !.pc = "exited", !.exit_code = 0,
                                !.out = Append(@, "status")]
              ELSE IF o = "failed" THEN Fail(main, "run")
              ELSE Fail(main, "exception")
    /\ UNCHANGED bridgeVars

NextMain ==
    \/ ResolveApiKey
    \/ DetermineMode
    \/ CreateContainer
    \/ Register
    \/ Initialize
    \/ EmitReady
    \/ StatusChange
    \/ \E p \in ThreadCorePayloads : RunCoreCallback(p)
    \/ \E p \in ThreadEdgePayloads : RunEdgeCallback(p)
    \/ Return
    \/ RunEnds

SpecMain == Init /\ [][NextMain]_vars

---------------------------------------------------------------------------
(* The bridge while the container runs: the steady clock keeps moving and  *)
(* both callback sources keep delivering, as the camera delivers frames    *)
(* while Run() executes.  The latest focus record stays in view after the  *)
(* callback returned, so that two consecutive classifications can be       *)
(* compared.                                                               *)

\* clock steps between callbacks: one second, and two seconds
LiveSteps == {TicksPerSec, 2 * TicksPerSec}

\* frames without a face and frames with one
LiveEdgePayloads == {EmptyEdge, [EmptyEdge EXCEPT !.has_face = TRUE]}

\* refined updates that carry no face message
LiveCorePayloads == {EmptyCore}

\* the callback returns; the focus record it emitted is the latest one
ReturnKeepingRecord ==
    /\ update.kind # "none"
    /\ update' = [kind |-> "none"]
    /\ emitted' = << >>
    /\ UNCHANGED <<now, advances, thresholds_, last_face_seen_,
                   ever_seen_face_, current_metrics_, blink_timestamps,
                   prev_blink_state, focus, face_log, blink_log>>
    /\ UNCHANGED threadVars
    /\ UNCHANGED main

\* the clock moves
Tick == \E d \in LiveSteps : AdvanceClock(d)

\* one of the two callbacks is delivered
Deliver ==
    \/ \E p \in LiveCorePayloads : CoreCallback(p)
    \/ \E p \in LiveEdgePayloads : EdgeCallback(p)

NextLive ==
    \/ Tick
    \/ Deliver
    \/ ReturnKeepingRecord

\* time passes between callbacks however many are delivered, callbacks are
\* delivered however often the clock moves, and a callback returns
SpecLive ==
    /\ Init
    /\ [][NextLive]_vars
    /\ SF_vars(Tick)
    /\ SF_vars(Deliver)
    /\ WF_vars(ReturnKeepingRecord)

---------------------------------------------------------------------------
(* Claims about the classifier, checked under SpecAnalyzer.  They speak    *)
(* of the call whose result the caller holds (focus.called): its snapshot  *)
(* focus.metrics, its clock reading focus.at and, from face_log, whether   *)
(* and when analyze was last given a face (this call included).            *)

\* ticks from the last analyze call that was given a face to this call
SinceFaceGiven == focus.at - face_log.at

\* the gaze magnitude exceeds threshold g, decided on the squares
GazeExceeds(m, g) ==
    g < 0 \/ m.gaze_x * m.gaze_x + m.gaze_y * m.gaze_y > g * g

\* the state of the first rule of the specification's table whose trigger
\* holds, for snapshot m under thresholds th, with seen telling whether a
\* face was ever given and elapsed the time since it last was
FirstRule(th, m, seen, elapsed) ==
    IF seen /\ ~m.face_detected /\ elapsed > th.face_absence_timeout_s
        THEN "AWAY"
    ELSE IF m.face_detected /\ m.is_talking
        THEN "TALKING"
    ELSE IF m.face_detected /\ m.has_gaze
            /\ GazeExceeds(m, th.gaze_distraction_threshold)
        THEN "DISTRACTED"
    ELSE IF m.face_detected
            /\ m.blink_rate_per_min > th.blink_rate_drowsy_threshold
        THEN "DROWSY"
    ELSE IF m.face_detected
            /\ m.has_pulse
            /\ m.pulse_rate_bpm > th.pulse_stressed_threshold
            /\ m.has_breathing
            /\ m.breathing_rate_bpm > th.breathing_stressed_threshold
        THEN "STRESSED"
    ELSE IF m.face_detected /\ seen
        THEN "FOCUSED"
    ELSE "UNKNOWN"

\* C1: analyze returns the state of the first rule whose trigger holds in
\* the order AWAY, TALKING, DISTRACTED, DROWSY, STRESSED, FOCUSED, UNKNOWN,
\* all comparisons strict, for every snapshot, threshold setting and
\* tracker state.
C1_FirstRuleWins ==
    focus.called =>
        focus.state =
            FirstRule(thresholds_, focus.metrics, face_log.given,
                      SinceFaceGiven)

\* C1, on the calls where the elapsed time is a whole number of
\* milliseconds: there the order of the rules is the table's.
C1_FirstRuleWinsOnWholeMs ==
    (focus.called /\ SinceFaceGiven % TicksPerMs = 0) =>
        focus.state =
            FirstRule(thresholds_, focus.metrics, face_log.given,
                      SinceFaceGiven)

\* C2: a classifier that was never given a snapshot with a face returns
\* UNKNOWN with score 0.5 for every snapshot, however many calls were made
\* and however much time has passed since construction; never AWAY.
C2_UnknownUntilFaceSeen ==
    (focus.called /\ ~face_log.given) =>
        /\ focus.state = "UNKNOWN"
        /\ focus.focus_score = ScoreNeutral

\* C2's case: no face was ever given and the call comes later than the
\* timeout (by a full millisecond and more) after construction
C2_Witness ==
    /\ focus.called
    /\ ~face_log.given
    /\ focus.at >= thresholds_.face_absence_timeout_s + TicksPerMs
    /\ focus.state = "UNKNOWN"

\* C3: with a face given at t0 and none since, a call at t returns AWAY
\* with score 0.0 if t - t0 is greater than the timeout, and UNKNOWN with
\* score 0.5 if t - t0 is at most the timeout.
C3_AwayExactlyPastTimeout ==
    (focus.called /\ face_log.given /\ ~focus.metrics.face_detected) =>
        IF SinceFaceGiven > thresholds_.face_absence_timeout_s
        THEN focus.state = "AWAY" /\ focus.focus_score = ScoreAway
        ELSE focus.state = "UNKNOWN" /\ focus.focus_score = ScoreNeutral

TableScore(th, m, st) ==
    CASE st = "AWAY" -> ScoreAway
      [] st = "TALKING" -> ScoreTalking
      [] st = "DROWSY" -> ScoreDrowsy
      [] st = "STRESSED" -> ScoreStressed
      [] st = "UNKNOWN" -> ScoreNeutral
      [] st = "DISTRACTED" ->
            Max(ScoreDistractedFloor,
                ScoreDistractedBase
                    - (ScoreDistractedSlope * GazeMag(m)) \div 1000)
      [] st = "FOCUSED" ->
            IF m.has_pulse /\ m.pulse_rate_bpm > 0
            THEN Min(ScoreFull,
                     (1000 * th.pulse_stressed_threshold)
                         \div m.pulse_rate_bpm)
            ELSE ScoreFull

\* C5: the score is determined by the chosen state: AWAY 0.0, TALKING 0.3,
\* DROWSY 0.15, STRESSED 0.25, UNKNOWN 0.5, DISTRACTED
\* max(0.1, 0.6 - 0.3 * magnitude), FOCUSED min(1.0, threshold / pulse)
\* when the pulse is present and positive, else 1.0.
C5_ScoreFollowsState ==
    focus.called =>
        focus.focus_score =
            TableScore(thresholds_, focus.metrics, focus.state)

\* C5's case: FOCUSED with a pulse above the (positive) threshold, so that
\* the quotient, not the cap, is the score
C5_Witness ==
    /\ focus.called
    /\ focus.state = "FOCUSED"
    /\ focus.metrics.has_pulse
    /\ focus.focus_score > 0
    /\ focus.focus_score < ScoreFull

\* C6: every score analyze produces lies in [0.0, 1.0], for all snapshot
\* values and all settings of the five thresholds.
C6_ScoreInUnitRange ==
    focus.called =>
        /\ focus.focus_score >= 0
        /\ focus.focus_score <= ScoreFull

\* C18: before any update every snapshot field holds its 'not present'
\* default (flags false, numbers 0), and analyze on that snapshot, by a
\* classifier that was never given a face, returns UNKNOWN with score 0.5.
\* No update reaches the collector under SpecAnalyzer.
C18_DefaultSnapshotIsUnknown ==
    /\ \A f \in {"has_pulse", "has_breathing", "face_detected",
                  "is_blinking", "is_talking", "has_gaze"} :
            current_metrics_[f] = FALSE
    /\ \A f \in {"pulse_rate_bpm", "pulse_confidence",
                  "breathing_rate_bpm", "breathing_confidence",
                  "blink_rate_per_min", "gaze_x", "gaze_y",
                  "timestamp_us"} :
            current_metrics_[f] = 0
    /\ (focus.called /\ focus.metrics = current_metrics_
            /\ ~face_log.given) =>
            /\ focus.state = "UNKNOWN"
            /\ focus.focus_score = ScoreNeutral

\* the first call of analyze, on the collector's untouched snapshot, made
\* later than the timeout after construction
C18_Witness ==
    /\ focus.called
    /\ focus.metrics = current_metrics_
    /\ ~face_log.given
    /\ focus.at > thresholds_.face_absence_timeout_s
    /\ focus.state = "UNKNOWN"

\* C19: analyze called twice in succession with the same snapshot and no
\* time elapsed between the calls returns the same state and the same
\* score both times, whatever the tracker held before the first call.
C19_RepeatedAnalyzeAgrees ==
    update.kind = "again" =>
        /\ focus.state = update.first.state
        /\ focus.focus_score = update.first.focus_score

\* the repeated call on a snapshot without a face: past the timeout after
\* a face (AWAY both times), and with no face ever given (UNKNOWN both
\* times, the tracker as constructed)
C19_Witness ==
    /\ update.kind = "again"
    /\ focus.at = now
    /\ ~focus.metrics.face_detected
    /\ \/ focus.state = "AWAY"
       \/ ~face_log.given /\ now > thresholds_.face_absence_timeout_s

\* C20: AWAY is returned only after a continuous absence: when analyze
\* returns AWAY at time t its snapshot has no face, and the latest analyze
\* call that was given a face came before t minus the timeout, so none
\* was given one in the interval from t minus the timeout up to t.
C20_AwayOnlyAfterContinuousAbsence ==
    (focus.called /\ focus.state = "AWAY") =>
        /\ ~focus.metrics.face_detected
        /\ face_log.given
        /\ face_log.at < focus.at - thresholds_.face_absence_timeout_s

\* AWAY returned under the default timeout
C20_Witness ==
    /\ focus.called
    /\ focus.state = "AWAY"
    /\ thresholds_ = DefaultThresholds
    /\ SinceFaceGiven > thresholds_.face_absence_timeout_s

\* the triggers of the three middle rules on snapshot m
MeetsDistraction(th, m) ==
    m.has_gaze /\ GazeExceeds(m, th.gaze_distraction_threshold)

MeetsDrowsy(th, m) ==
    m.blink_rate_per_min > th.blink_rate_drowsy_threshold

MeetsStressed(th, m) ==
    /\ m.has_pulse /\ m.pulse_rate_bpm > th.pulse_stressed_threshold
    /\ m.has_breathing
    /\ m.breathing_rate_bpm > th.breathing_stressed_threshold

\* the call in hand was given a face and is_talking = false
FaceNotTalking ==
    focus.called /\ focus.metrics.face_detected /\ ~focus.metrics.is_talking

C25_OutcomePartitionsOnFace ==
    focus.called =>
        /\ focus.state \in {"AWAY", "UNKNOWN"} <=>
               ~focus.metrics.face_detected
        /\ (FaceNotTalking
                /\ ~MeetsDistraction(thresholds_, focus.metrics)
                /\ ~MeetsDrowsy(thresholds_, focus.metrics)
                /\ ~MeetsStressed(thresholds_, focus.metrics)) =>
               focus.state = "FOCUSED"

\* a call given a face that fires no trigger, no face having been given
\* to any call at an earlier time: FOCUSED
C25_Witness ==
    /\ FaceNotTalking
    /\ update.kind = "analyze"
    /\ now = 0
    /\ ~MeetsDistraction(thresholds_, focus.metrics)
    /\ ~MeetsDrowsy(thresholds_, focus.metrics)
    /\ ~MeetsStressed(thresholds_, focus.metrics)
    /\ focus.state = "FOCUSED"

---------------------------------------------------------------------------
(* Claims about the blink estimator, checked under SpecBlink.  blink_log   *)
(* is the record of the estimate_blink_rate calls made by either callback, *)
(* in the order they were made; a call is a rising edge when its flag is   *)
(* set and the flag of the call before it was not.                         *)

\* how many rising edges happened within the window that ends at t
OnsetsWithin(t) ==
    Cardinality({i \in 1..Len(blink_log.onsets) :
                    blink_log.onsets[i] >= t - BlinkWindow})

\* C7: the value a call of estimate_blink_rate returns is the number of
\* rising edges within the 60 seconds before the call; a flag held over
\* consecutive calls counts once.
C7_RateCountsOnsetsInWindow ==
    blink_log.calls > 0 =>
        blink_log.returned = OnsetsWithin(blink_log.at)

\* C7's case: the flag is held from one call to the next and the one
\* onset is still within the window
C7_Witness ==
    /\ blink_log.calls >= 2
    /\ blink_log.flag
    /\ ~blink_log.onset
    /\ blink_log.returned = 1

\* C8: a call that records no new onset returns no more than the call
\* before it did, and a call made more than 60 seconds after the last
\* recorded onset returns 0.
C8_RateAgesOut ==
    /\ (blink_log.calls >= 2 /\ ~blink_log.onset) =>
           blink_log.returned <= blink_log.returned_before
    /\ (blink_log.calls >= 1 /\ blink_log.onsets # << >>
        /\ blink_log.at - Last(blink_log.onsets) > BlinkWindow) =>
           blink_log.returned = 0

\* C8's case: the onset that the call before still counted is more than
\* 60 seconds old at this call
C8_Witness ==
    /\ blink_log.calls >= 2
    /\ blink_log.onsets # << >>
    /\ blink_log.at - Last(blink_log.onsets) > BlinkWindow
    /\ blink_log.returned_before > 0
    /\ blink_log.returned = 0

\* the entry of the history at time t is within the window of the latest
\* call
InWindowOfLatestCall(t) == t >= blink_log.at - BlinkWindow

\* C28: after every estimate_blink_rate call the blink history is in
\* non-decreasing time order and holds no entry older than 60 seconds
\* before the call, and every onset that is at most 60 seconds old, one
\* exactly 60 seconds old included, is still in it.
C28_HistorySortedAndFresh ==
    blink_log.calls > 0 =>
        /\ \A i \in 1..Len(blink_timestamps) :
               /\ InWindowOfLatestCall(blink_timestamps[i])
               /\ i > 1 => blink_timestamps[i - 1] <= blink_timestamps[i]
        /\ blink_timestamps =
               SelectSeq(blink_log.onsets, InWindowOfLatestCall)

\* the history after a call made exactly 60 seconds after an onset, with
\* a later onset behind it
C28_Witness ==
    /\ blink_log.calls > 0
    /\ Len(blink_timestamps) >= 2
    /\ Head(blink_timestamps) = blink_log.at - BlinkWindow

\* C23: the blink rate a callback's classification reads from the
\* snapshot is the number of onsets within the 60 seconds before the
\* classification, also after updates without a blink observation, so
\* DROWSY is returned only if more onsets than the drowsy threshold
\* occurred within those 60 seconds.
C23_DrowsyOnlyOnRecentBlinks ==
    (focus.called /\ update.kind \in {"core", "edge"}) =>
        /\ focus.metrics.blink_rate_per_min = OnsetsWithin(focus.at)
        /\ focus.state = "DROWSY" =>
               OnsetsWithin(focus.at)
                   > thresholds_.blink_rate_drowsy_threshold

---------------------------------------------------------------------------
(* Claims about the gaze estimate of a frame update, checked under Spec    *)

\* the frame update in hand carried landmark sets
FrameWithLandmarks ==
    /\ update.kind = "edge"
    /\ update.payload.has_face
    /\ update.payload.face.landmarks # << >>

\* C9: after a frame update whose latest landmark set has fewer than 468
\* points the snapshot has has_gaze = false, whatever it had before.
C9_SparseMeshClearsGaze ==
    (FrameWithLandmarks
     /\ Last(update.payload.face.landmarks).count < DenseMeshSize) =>
        ~current_metrics_.has_gaze

\* C10: after a frame update whose latest landmark set is dense but whose
\* face width or face height is at most 1.0 the snapshot has
\* has_gaze = false, whatever it had before.
C10_DegenerateFaceClearsGaze ==
    (FrameWithLandmarks
     /\ Last(update.payload.face.landmarks).count >= DenseMeshSize
     /\ LET lm == Last(update.payload.face.landmarks)
        IN  \/ lm.right_cheek_x - lm.left_cheek_x <= MinFaceExtent
            \/ lm.chin_y - lm.forehead_y <= MinFaceExtent) =>
        ~current_metrics_.has_gaze

---------------------------------------------------------------------------
(* Claims about what one update does to the snapshot, checked under Spec.  *)
(* They compare the snapshot the callback in hand left (current_metrics_)  *)
(* with the one it found (update.before).                                  *)

\* fields fs have the same values in snapshots a and b
SameFields(a, b, fs) == \A f \in fs : a[f] = b[f]

PulseFields == {"pulse_rate_bpm", "pulse_confidence", "has_pulse"}

BreathingFields ==
    {"breathing_rate_bpm", "breathing_confidence", "has_breathing"}

BlinkFields == {"is_blinking", "blink_rate_per_min"}

GazeFields == {"gaze_x", "gaze_y", "has_gaze"}

\* C11: after every frame update face_detected equals whether the update
\* carried face data, and when it carried none has_gaze is false.
C11_FrameSetsFaceDetected ==
    update.kind = "edge" =>
        /\ current_metrics_.face_detected = update.payload.has_face
        /\ ~update.payload.has_face => ~current_metrics_.has_gaze

\* a frame without a face reached a snapshot that had a face and a gaze
C11_Witness ==
    /\ update.kind = "edge"
    /\ ~update.payload.has_face
    /\ update.before.face_detected
    /\ update.before.has_gaze
    /\ ~current_metrics_.face_detected
    /\ ~current_metrics_.has_gaze

\* C12: fields an update does not report keep their values.  A refined
\* update without a pulse sample leaves the pulse value, confidence and
\* flag as they were, likewise for breathing; an update of either kind
\* without a blink observation leaves is_blinking and blink_rate_per_min,
\* and one without a talk observation leaves is_talking; a frame update
\* leaves the timestamp and the vitals, a refined update leaves the gaze.
C12_UnreportedFieldsKeepValues ==
    LET p == update.payload
        before == update.before
        after == current_metrics_
    IN  /\ (update.kind = "core" /\ ~(p.has_pulse /\ p.pulse_rate # << >>))
                => SameFields(after, before, PulseFields)
        /\ (update.kind = "core"
                /\ ~(p.has_breathing /\ p.breathing_rate # << >>))
                => SameFields(after, before, BreathingFields)
        /\ (update.kind \in {"core", "edge"}
                /\ ~(p.has_face /\ p.face.blinking # << >>))
                => SameFields(after, before, BlinkFields)
        /\ (update.kind \in {"core", "edge"}
                /\ ~(p.has_face /\ p.face.talking # << >>))
                => after.is_talking = before.is_talking
        /\ update.kind = "edge" =>
                SameFields(after, before,
                           {"timestamp_us"} \cup PulseFields
                               \cup BreathingFields)
        /\ update.kind = "core" => SameFields(after, before, GazeFields)

\* a refined update without samples or observations reached a snapshot
\* that had a pulse, a breathing rate, a blink rate and the talk flag set
C12_Witness ==
    /\ update.kind = "core"
    /\ update.payload = EmptyCore
    /\ update.before.has_pulse
    /\ update.before.pulse_rate_bpm = 110
    /\ update.before.has_breathing
    /\ update.before.blink_rate_per_min > 0
    /\ update.before.is_talking
    /\ current_metrics_.has_pulse
    /\ current_metrics_.pulse_rate_bpm = 110

\* C13: a refined update leaves face_detected, gaze_x, gaze_y and has_gaze
\* as they were, so it never turns a snapshot without a face into one with
\* a face.
C13_RefinedLeavesFaceAndGaze ==
    update.kind = "core" =>
        SameFields(current_metrics_, update.before,
                   {"face_detected"} \cup GazeFields)

\* the payload of the update in hand carries a pulse sample, a breathing
\* sample
CarriesPulse(u) ==
    u.kind = "core" /\ u.payload.has_pulse /\ u.payload.pulse_rate # << >>

CarriesBreathing(u) ==
    /\ u.kind = "core"
    /\ u.payload.has_breathing
    /\ u.payload.breathing_rate # << >>

\* what a step does to the presence flags and to the vitals
PresenceKept ==
    /\ current_metrics_.has_pulse => current_metrics_'.has_pulse
    /\ current_metrics_.has_breathing => current_metrics_'.has_breathing
    /\ ever_seen_face_ => ever_seen_face_'
    /\ current_metrics_'.has_pulse =>
           IF update.kind = "none" /\ CarriesPulse(update')
           THEN current_metrics_'.pulse_rate_bpm =
                    Last(update'.payload.pulse_rate).value
           ELSE current_metrics_'.pulse_rate_bpm
                    = current_metrics_.pulse_rate_bpm
    /\ current_metrics_'.has_breathing =>
           IF update.kind = "none" /\ CarriesBreathing(update')
           THEN current_metrics_'.breathing_rate_bpm =
                    Last(update'.payload.breathing_rate).value
           ELSE current_metrics_'.breathing_rate_bpm
                    = current_metrics_.breathing_rate_bpm

\* C27: has_pulse and has_breathing are monotone: once true they are true
\* in every later snapshot, the value being that of the latest non-empty
\* sample list, whatever later updates carry; ever_seen_face_ and these
\* flags are never cleared.
C27_PresenceFlagsMonotone == [][PresenceKept]_vars

\* a frame without a face reached a snapshot with both vitals, a face
\* having been seen: the vitals and the flags are as they were
C27_Witness ==
    /\ update.kind = "edge"
    /\ ~update.payload.has_face
    /\ ever_seen_face_
    /\ update.before.has_pulse
    /\ update.before.has_breathing
    /\ current_metrics_.has_pulse
    /\ current_metrics_.has_breathing
    /\ current_metrics_.pulse_rate_bpm = 110

---------------------------------------------------------------------------
(* Claims about the two callbacks running on two threads, checked under    *)
(* SpecThreads                                                             *)

\* C14: the two callbacks' read-modify-writes of the snapshot, the blink
\* history and the previous-blink flag exclude each other: while one
\* thread is inside process_*_metrics the other is neither inside
\* process_*_metrics nor inside analyze, which reads the snapshot.
C14_UpdatesExcludeEachOther ==
    \A k \in Thread :
        threads[k].pc = "process" =>
            threads[Other(k)].pc \notin {"process", "analyze"}

\* where a thread holds the result of its analyze call
HoldsResult == {"emit_focus", "writing_focus"}

\* C15: each classification is made on the snapshot exactly as the update
\* of the same callback left it: between the end of a callback's update
\* and the end of its analyze call no other update writes the snapshot
\* and no other call writes the face-absence tracker.
C15_AnalyzeSeesOwnUpdate ==
    \A k \in Thread :
        /\ threads[k].pc \in BetweenUpdateAndResult \cup HoldsResult =>
               ~threads[k].disturbed
        /\ threads[k].pc \in HoldsResult =>
               threads[k].analyzed = threads[k].left

\* the first part of a line
IsHead(c) == c.part = "head"

\* the records on the output, in the order they were begun
Records == SelectSeq(stdout, IsHead)

\* C16: every processed update produces exactly two records, its raw
\* record (metrics or edge) and then its focus record, with no record of
\* another update between the two.
C16_RawThenFocusPerUpdate ==
    /\ \A i \in 1..Len(Records) :
           IF Records[i].type = "focus"
           THEN /\ i > 1
                /\ Records[i - 1].n = Records[i].n
                /\ Records[i - 1].type # "focus"
           ELSE i < Len(Records) =>
                   /\ Records[i + 1].n = Records[i].n
                   /\ Records[i + 1].type = "focus"
    /\ (\A k \in Thread : threads[k].pc = "idle") =>
           Len(Records) = 2 * started

\* where a thread is inside emit, between the two parts of its line
Writing == {"writing_raw", "writing_focus"}

\* C17: emit is thread-safe: every record reaches stdout as one complete
\* line, the parts of two records are never interleaved, and at most one
\* thread, the holder of the write mutex, is writing at any time.
C17_EmitWritesWholeLines ==
    /\ \A i \in 1..Len(stdout) :
           IF IsHead(stdout[i])
           THEN i < Len(stdout) =>
                   stdout[i + 1] = [stdout[i] EXCEPT !.part = "tail"]
           ELSE /\ i > 1
                /\ stdout[i - 1] = [stdout[i] EXCEPT !.part = "head"]
    /\ \A k \in Thread :
           threads[k].pc \in Writing =>
               /\ write_mutex_ = k
               /\ threads[Other(k)].pc \notin Writing

\* one thread is in the middle of a line while the other has reached its
\* own call of emit and waits for the mutex
C17_Witness ==
    \E k \in Thread :
        /\ threads[k].pc \in Writing
        /\ threads[Other(k)].pc \in {"emit_raw", "emit_focus"}
        /\ Len(stdout) > 2

---------------------------------------------------------------------------
(* Claims about the snapshot under interleaved updates, checked under      *)
(* SpecStatements                                                          *)

\* an update whose assignments ran without the other thread executing
\* anything in between leaves what process_*_metrics as a whole leaves
StatementsAgreeWithProcess ==
    \A k \in Thread :
        (threads[k].pc = "updated" /\ threads[k].alone) =>
            threads[k].left = threads[k].expected

\* has_gaze = true implies face_detected = true in snapshot m
GazeOnlyWithFace(m) == m.has_gaze => m.face_detected

\* C26: in every snapshot reached by interleaving the assignments of
\* refined and frame updates, has_gaze = true implies face_detected =
\* true: in particular in the snapshot a callback finds when its own
\* update is complete.
C26_GazeImpliesFace ==
    \A k \in Thread :
        threads[k].pc = "updated" => GazeOnlyWithFace(threads[k].left)

\* C26 between updates: with no update in progress the snapshot has
\* face_detected = true whenever it has has_gaze = true.
C26_GazeImpliesFaceBetweenUpdates ==
    (\A k \in Thread : threads[k].pc # "statement") =>
        GazeOnlyWithFace(current_metrics_)

---------------------------------------------------------------------------
(* Claims about start-up, checked under SpecMain                           *)

\* how many ready records main has emitted
ReadyCount ==
    Cardinality({i \in 1..Len(main.out) : main.out[i] = "ready"})

\* the start-up failures main tests for
StartupFailures ==
    {"api_key", "file_stream_path", "register", "initialize"}

\* C24: the ready record is emitted at most once, only after the API key
\* was resolved, all four callbacks were registered and Initialize
\* succeeded, and before any metrics, edge or focus record; every
\* start-up failure emits an error record and exits with code 1 without
\* ready ever being emitted.
C24_ReadyOnlyAfterStartup ==
    /\ ReadyCount <= 1
    /\ ReadyCount = 1 =>
           /\ main.api_key
           /\ main.registered = {"core", "edge", "video", "status"}
           /\ main.initialized
    /\ emitted # << >> => ReadyCount = 1
    /\ main.failure \in StartupFailures =>
           /\ main.pc = "exited"
           /\ main.exit_code = 1
           /\ Last(main.out) = "error"
           /\ ReadyCount = 0

\* a callback has written its two records after ready was emitted
C24_Witness ==
    /\ main.pc = "run"
    /\ ReadyCount = 1
    /\ Len(emitted) = 2
    /\ Last(main.out) = "ready"

---------------------------------------------------------------------------
(* Claims about absence over time, checked under SpecLive *)

\* the shortest time the clock still moves within the modelled horizon
TimeLeft == (MaxAdvances - advances) * TicksPerSec

\* a face was seen, the snapshot has none, and the clock will pass the
\* absence timeout
FaceGone ==
    /\ ever_seen_face_
    /\ ~current_metrics_.face_detected
    /\ AbsenceExceeds(thresholds_, now + TimeLeft, last_face_seen_)

\* the latest classification returned AWAY
ReturnedAway == focus.called /\ focus.state = "AWAY"

\* a callback classifies after one that returned AWAY: AWAY again while
\* the snapshot has no face; with a face, not AWAY and the absence timer
\* restarts
AfterAway ==
    (ReturnedAway /\ update.kind = "none" /\ update'.kind # "none") =>
        IF current_metrics_'.face_detected
        THEN focus'.state # "AWAY" /\ last_face_seen_' = now'
        ELSE focus'.state = "AWAY"

\* C22: once a face was seen, if every following update leaves
\* face_detected false while updates keep arriving and time advances, a
\* classification eventually returns AWAY; every later classification
\* returns AWAY until an update makes face_detected true, and the first
\* classification with a face after AWAY is not AWAY and restarts the
\* absence timer.
C22_EventuallyAwayUntilFace ==
    /\ FaceGone ~> (ReturnedAway \/ current_metrics_.face_detected)
    /\ [][AfterAway]_vars

\* AWAY returned by a callback four seconds after the last classification
\* with a face, the time having passed in more than one step of the clock
C22_Witness ==
    /\ update.kind \in {"core", "edge"}
    /\ ReturnedAway
    /\ face_log.given
    /\ advances >= 2
    /\ now - face_log.at = 4 * TicksPerSec

===========================================================================
